---------------------------- MODULE Spec2Model ----------------------------
(***************************************************************************)
(* Model of rebloom.c: the scalable Bloom filter (a chain of linkedBloom    *)
(* generations, newest first), the BF.* command handlers over one key, and  *)
(* the RDB save/load callbacks of the module type.                          *)
(*                                                                          *)
(* A pointer is a sequence of length 0 (NULL) or 1.  The chain sb->cur is   *)
(* the sequence of its links, head first, so NULL is the empty sequence.    *)
(* A double is a fixed-point integer: an error rate in units of 1/10000, a  *)
(* bits-per-element value in units of 1/BpeScale.  A bit array is the set   *)
(* of the positions of its 1 bits together with its length in bytes.        *)
(***************************************************************************)
EXTENDS Integers, Sequences, FiniteSets, Bags, TLC

VARIABLES
    slot,      \* the key: [type, sb]; type "empty", "string" or "bf"
    rdb,       \* the dump of the key written by the last save, <<>> once stale
    pre,       \* the key as it was when the last operation started
    op,        \* the last operation, its arguments and what it returned
    replies,   \* the replies the last command sent, in order
    calls,     \* the sb_add calls of the last command, in order
    added,     \* the elements sb_add has been called with on the key's filter
    growths,   \* the generations sb_add has prepended to the key's filter
    inserts,   \* the sb_add calls on the key's filter that found the test false
    nlive,     \* the allocations made for the key's filter and not yet freed
    freed      \* the addresses the last operation freed, in order

vars == <<slot, rdb, pre, op, replies, calls, added, growths, inserts, nlive, freed>>

---------------------------------------------------------------------------
(* Bounds and inputs *)

\* Longest list of elements a BF.CREATE carries.
MaxBatchLen == 8

\* Longest list of elements a BF.SET or BF.SETNX carries, and how much of
\* ElemList these commands draw their elements from.
MaxAddLen == 2
AddSpan == 4

\* Longest chain a command may leave behind.
MaxGens == 3

\* The elements commands draw from.  An element stands for its hash value.
\* BF.CREATE carries a prefix of this list, BF.SET and BF.SETNX a contiguous
\* piece of its first AddSpan elements.
ElemList == <<0, 1, 0, 2, 5, 8, 11, 14>>

Min(a, b) == IF a < b THEN a ELSE b

Elems == {ElemList[i] : i \in 1..Len(ElemList)}

CreateBatches == {SubSeq(ElemList, 1, j) : j \in 0..Min(MaxBatchLen, Len(ElemList))}

AddBatches ==
    {s \in {SubSeq(ElemList, i, j) : i \in 1..Min(AddSpan, Len(ElemList)),
                                     j \in 0..Min(AddSpan, Len(ElemList))} :
        Len(s) <= MaxAddLen}

\* BF.CREATE's error-rate argument: unparsable (-1), 0, or 0.9983.
BadRate == 0 - 1
RateArgs == {BadRate, 0, 9983}

\* The encoding versions a dump may be tagged with.
EncVers == {0, 1}

---------------------------------------------------------------------------
(* deps/bloom.c: the single-generation filter *)

BpeScale == 10000

\* bpe = -ln(error) / ln(2)^2, in units of 1/BpeScale.
bloom_bpe(error) ==
    CASE error = 100 -> 95850
      [] error = 9983 -> 35
      [] OTHER -> 35

\* hashes = ceil(ln(2) * bpe).
bloom_hashes(error) ==
    CASE error = 100 -> 7
      [] OTHER -> 1

bloom_bits(entries, bpe) == (entries * bpe) \div BpeScale

bloom_bytes(bits) == (bits \div 8) + (IF bits % 8 # 0 THEN 1 ELSE 0)

bloom_init(entries, error) ==
    [entries  |-> entries,
     error    |-> error,
     bits     |-> bloom_bits(entries, bloom_bpe(error)),
     bytes    |-> bloom_bytes(bloom_bits(entries, bloom_bpe(error))),
     hashes   |-> bloom_hashes(error),
     bpe      |-> bloom_bpe(error),
     bf       |-> {},
     fillbits |-> 0]

\* The bit positions of an element: x = (a + i*b) % bits for i < hashes, with
\* a the element's hash and b = 1.
bloom_positions(bm, e) == {(e + i) % bm.bits : i \in 0..(bm.hashes - 1)}

bloom_check(bm, e) == bloom_positions(bm, e) \subseteq bm.bf

\* Sets the element's bits; the result's second field counts the bits that
\* were 0 before.
bloom_add_retbits(bm, e) ==
    [bm      |-> [bm EXCEPT !.bf = bm.bf \cup bloom_positions(bm, e)],
     newbits |-> Cardinality(bloom_positions(bm, e) \ bm.bf)]

---------------------------------------------------------------------------
(* Core *)

MinEntries == 1000

\* lb_create with the floor at half of what it is.
lb_create_lowfloor(size, error_rate) ==
    bloom_init(IF size < MinEntries \div 2 THEN MinEntries \div 2 ELSE size, error_rate)

lb_create(size, error_rate) ==
    bloom_init(IF size < MinEntries THEN MinEntries ELSE size, error_rate)

\* lb_add counting every bit of the element, not the newly set ones.
lb_add_allbits(lb, e) ==
    LET r == bloom_add_retbits(lb, e)
    IN  [lb      |-> [r.bm EXCEPT !.fillbits = lb.fillbits + lb.hashes],
         newbits |-> r.newbits]

lb_add(lb, e) ==
    LET r == bloom_add_retbits(lb, e)
    IN  [lb      |-> [r.bm EXCEPT !.fillbits = lb.fillbits + r.newbits],
         newbits |-> r.newbits]

\* sb_check looking at the head link only.
sb_check_headonly(sb, e) == sb.cur # <<>> /\ bloom_check(Head(sb.cur), e)

sb_check(sb, e) == \E i \in 1..Len(sb.cur) : bloom_check(sb.cur[i], e)

\* sb_add with the new link's next left NULL.
sb_add_dropchain(sb, e) ==
    IF \E i \in 1..Len(sb.cur) : bloom_check(sb.cur[i], e)
    THEN [sb |-> sb, rv |-> 1]
    ELSE LET grown == IF Head(sb.cur).fillbits * 2 > Head(sb.cur).bits
                      THEN <<lb_create(Head(sb.cur).entries * 2, sb.error)>>
                      ELSE sb.cur
             r     == lb_add(Head(grown), e)
         IN  [sb |-> [sb EXCEPT !.cur = <<r.lb>> \o Tail(grown),
                                !.total_entries =
                                    IF r.newbits # 0 THEN sb.total_entries + 1
                                                     ELSE sb.total_entries],
              rv |-> r.newbits]

\* sb_add with the new link sized like the old head.
sb_add_samecap(sb, e) ==
    IF \E i \in 1..Len(sb.cur) : bloom_check(sb.cur[i], e)
    THEN [sb |-> sb, rv |-> 1]
    ELSE LET grown == IF Head(sb.cur).fillbits * 2 > Head(sb.cur).bits
                      THEN <<lb_create(Head(sb.cur).entries, sb.error)>> \o sb.cur
                      ELSE sb.cur
             r     == lb_add(Head(grown), e)
         IN  [sb |-> [sb EXCEPT !.cur = <<r.lb>> \o Tail(grown),
                                !.total_entries =
                                    IF r.newbits # 0 THEN sb.total_entries + 1
                                                     ELSE sb.total_entries],
              rv |-> r.newbits]

\* sb_add without the check for an element that already tests true.
sb_add_nocheck(sb, e) ==
    LET grown == IF Head(sb.cur).fillbits * 2 > Head(sb.cur).bits
                 THEN <<lb_create(Head(sb.cur).entries * 2, sb.error)>> \o sb.cur
                 ELSE sb.cur
        r     == lb_add(Head(grown), e)
    IN  [sb |-> [sb EXCEPT !.cur = <<r.lb>> \o Tail(grown),
                           !.total_entries =
                               IF r.newbits # 0 THEN sb.total_entries + 1
                                                ELSE sb.total_entries],
         rv |-> r.newbits]

\* sb_add counting an element that already tests true as one more entry.
sb_add_countall(sb, e) ==
    IF \E i \in 1..Len(sb.cur) : bloom_check(sb.cur[i], e)
    THEN [sb |-> [sb EXCEPT !.total_entries = sb.total_entries + 1], rv |-> 1]
    ELSE LET grown == IF Head(sb.cur).fillbits * 2 > Head(sb.cur).bits
                      THEN <<lb_create(Head(sb.cur).entries * 2, sb.error)>> \o sb.cur
                      ELSE sb.cur
             r     == lb_add(Head(grown), e)
         IN  [sb |-> [sb EXCEPT !.cur = <<r.lb>> \o Tail(grown),
                                !.total_entries =
                                    IF r.newbits # 0 THEN sb.total_entries + 1
                                                     ELSE sb.total_entries],
              rv |-> r.newbits]

sb_add(sb, e) ==
    IF sb_check(sb, e)
    THEN [sb |-> sb, rv |-> 1]
    ELSE LET grown == IF Head(sb.cur).fillbits * 2 > Head(sb.cur).bits
                      THEN <<lb_create(Head(sb.cur).entries * 2, sb.error)>> \o sb.cur
                      ELSE sb.cur
             r     == lb_add(Head(grown), e)
         IN  [sb |-> [sb EXCEPT !.cur = <<r.lb>> \o Tail(grown),
                                !.total_entries =
                                    IF r.newbits # 0 THEN sb.total_entries + 1
                                                     ELSE sb.total_entries],
              rv |-> r.newbits]

sb_create(initsize, error_rate) ==
    [cur           |-> <<lb_create(initsize, error_rate)>>,
     total_entries |-> 0,
     error         |-> error_rate,
     is_fixed      |-> 0]

\* The heap as a filter of n links occupies it: the scalableBloom at address
\* 1, the link at place i of the chain at address 2i and its bit array at
\* 2i + 1; 0 is NULL.
SbAddr == 1
LbAddr(i) == 2 * i
BfAddr(i) == 2 * i + 1

HeapOf(sb) ==
    [a \in 1..(2 * Len(sb.cur) + 1) |->
        IF a = SbAddr
        THEN [kind |-> "sb", ptr |-> IF Len(sb.cur) > 0 THEN LbAddr(1) ELSE 0, next |-> 0]
        ELSE IF a % 2 = 0
        THEN [kind |-> "lb", ptr |-> a + 1,
              next |-> IF a < LbAddr(Len(sb.cur)) THEN a + 2 ELSE 0]
        ELSE [kind |-> "bf", ptr |-> 0, next |-> 0]]

\* bloom_free frees the link's bit array.
bloom_free(heap, lb) == <<heap[lb].ptr>>

\* The loop of sb_free from the link at lb on: the addresses freed, in order.
RECURSIVE FreeLinks(_, _)
FreeLinks(heap, lb) ==
    IF lb = 0
    THEN <<>>
    ELSE LET lb_next == heap[lb].next
         IN  bloom_free(heap, lb) \o <<lb>> \o FreeLinks(heap, lb_next)

\* sb_free without the call of bloom_free.
sb_free_leak(heap, sb) ==
    LET links == FreeLinks(heap, heap[sb].ptr)
    IN  SelectSeq(links, LAMBDA a : heap[a].kind = "lb") \o <<sb>>

sb_free(heap, sb) == FreeLinks(heap, heap[sb].ptr) \o <<sb>>


---------------------------------------------------------------------------
(* Redis commands *)

BFDefaultErrorRate == 100

Empty == [type |-> "empty", sb |-> <<>>]
OtherValue == [type |-> "string", sb |-> <<>>]
Filter(sb) == [type |-> "bf", sb |-> <<sb>>]

\* mode "rw": the key was opened for writing, so it is never NULL.
bf_get_sb(key, mode) ==
    IF key.type = "empty"
    THEN (IF mode = "r" THEN "SB_MISSING" ELSE "SB_EMPTY")
    ELSE IF key.type = "bf" THEN "SB_OK" ELSE "SB_MISMATCH"

\* status_strerror without the case for SB_OK.
status_strerror_nook(status) ==
    CASE status = "SB_MISSING"  -> "ERR not found"
      [] status = "SB_MISMATCH" -> "ERR mismatched type"
      [] OTHER                  -> "Unknown error"

status_strerror(status) ==
    CASE status = "SB_MISSING"  -> "ERR not found"
      [] status = "SB_MISMATCH" -> "ERR mismatched type"
      [] status = "SB_OK"       -> "ERR item exists"
      [] OTHER                  -> "Unknown error"

\* The loop of bf_add_common: sb_add of each element in turn, with the
\* record of every call.
RECURSIVE AddAll(_, _, _)
AddAll(sb, elems, done) ==
    IF elems = <<>>
    THEN [sb |-> sb, calls |-> done]
    ELSE LET r == sb_add(sb, Head(elems))
         IN  AddAll(r.sb, Tail(elems),
                    Append(done, [elem |-> Head(elems), pre |-> sb,
                                  post |-> r.sb, rv |-> r.rv]))

\* sbp is the pointer (a sequence of length 0 or 1); the result's sb is the
\* filter the key holds afterwards.
bf_add_common(sbp, is_fixed, error_rate, elems) ==
    LET rate == IF error_rate = 0 THEN BFDefaultErrorRate ELSE error_rate
        sb   == IF sbp = <<>>
                THEN [sb_create(Len(elems), rate) EXCEPT !.is_fixed = is_fixed]
                ELSE sbp[1]
    IN  AddAll(sb, elems, <<>>)

Grown(cs) == Cardinality({i \in 1..Len(cs) : Len(cs[i].post.cur) > Len(cs[i].pre.cur)})

ElemsOf(s) == {s[i] : i \in 1..Len(s)}

\* The calls among cs that found their element's test false.
Inserted(cs) ==
    Cardinality({i \in 1..Len(cs) :
        ~\E k \in 1..Len(cs[i].pre.cur) : bloom_check(cs[i].pre.cur[k], cs[i].elem)})

\* The allocations of the calls cs: a growth allocates a link and its bit
\* array.  A new filter takes three: the filter, its link, the bit array.
GrowthAllocs(cs) == 2 * Grown(cs)
CreateAllocs == 3

NoOp == [name |-> "init", elems |-> <<>>, arg |-> 0, ret |-> "none",
         io |-> <<>>, nread |-> 0, nalloc |-> 0]

Cmd(name, elems, arg, ret) ==
    [name |-> name, elems |-> elems, arg |-> arg, ret |-> ret,
     io |-> <<>>, nread |-> 0, nalloc |-> 0]

BFCreate_RedisCommand(rate, elems) ==
    LET status == bf_get_sb(slot, "rw")
        r      == bf_add_common(<<>>, 1, rate, elems)
    IN  /\ pre' = slot
        /\ freed' = <<>>
        /\ IF rate = BadRate
           THEN /\ replies' = <<"ERR error rate required">>
                /\ op' = Cmd("BF.CREATE", elems, rate, "ERR")
                /\ UNCHANGED <<slot, rdb, added, growths, inserts, nlive>>
                /\ calls' = <<>>
           ELSE IF status # "SB_EMPTY"
           THEN /\ replies' = <<status_strerror(status)>>
                /\ op' = Cmd("BF.CREATE", elems, rate, "ERR")
                /\ UNCHANGED <<slot, rdb, added, growths, inserts, nlive>>
                /\ calls' = <<>>
           ELSE /\ Len(r.sb.cur) <= MaxGens
                /\ slot' = Filter(r.sb)
                /\ rdb' = <<>>
                /\ calls' = r.calls
                /\ added' = ElemsOf(elems)
                /\ growths' = Grown(r.calls)
                /\ inserts' = Inserted(r.calls)
                /\ nlive' = CreateAllocs + GrowthAllocs(r.calls)
                /\ replies' = <<"NULL">>
                /\ op' = Cmd("BF.CREATE", elems, rate, "OK")

BFCheck_RedisCommand(e) ==
    LET status == bf_get_sb(slot, "r")
    IN  /\ pre' = slot
        /\ calls' = <<>>
        /\ freed' = <<>>
        /\ UNCHANGED <<slot, rdb, added, growths, inserts, nlive>>
        /\ IF status # "SB_OK"
           THEN /\ replies' = <<status_strerror(status)>>
                /\ op' = Cmd("BF.TEST", <<e>>, 0, "ERR")
           ELSE /\ replies' = <<IF sb_check(slot.sb[1], e) THEN "1" ELSE "0">>
                /\ op' = Cmd("BF.TEST", <<e>>, 0, "OK")

\* BFAdd_RedisCommand without the test of is_fixed.
BFAdd_nofixed(cmdname, key, elems) ==
    LET status == bf_get_sb(key, "rw")
        r      == bf_add_common(key.sb, 0, 0, elems)
        early  == IF status # "SB_OK" /\ status # "SB_EMPTY"
                  THEN <<status_strerror(status)>> ELSE <<>>
    IN  IF elems = <<>>
        THEN [replies |-> <<"ERR wrong number of arguments">>, ret |-> "ERR",
              ran |-> FALSE, sb |-> key.sb, calls |-> <<>>]
        ELSE IF status = "SB_OK" /\ cmdname = "BF.SETNX"
        THEN [replies |-> <<"ERR filter already exists">>, ret |-> "ERR",
              ran |-> FALSE, sb |-> key.sb, calls |-> <<>>]
        ELSE [replies |-> early \o <<"NULL">>, ret |-> "OK",
              ran |-> TRUE, sb |-> <<r.sb>>, calls |-> r.calls]

\* BFAdd_RedisCommand without the test for BF.SETNX.
BFAdd_nosetnx(cmdname, key, elems) ==
    LET status == bf_get_sb(key, "rw")
        r      == bf_add_common(key.sb, 0, 0, elems)
        early  == IF status # "SB_OK" /\ status # "SB_EMPTY"
                  THEN <<status_strerror(status)>> ELSE <<>>
    IN  IF elems = <<>>
        THEN [replies |-> <<"ERR wrong number of arguments">>, ret |-> "ERR",
              ran |-> FALSE, sb |-> key.sb, calls |-> <<>>]
        ELSE IF status = "SB_OK" /\ key.sb[1].is_fixed # 0
        THEN [replies |-> <<"ERR cannot add: filter is fixed">>, ret |-> "ERR",
              ran |-> FALSE, sb |-> key.sb, calls |-> <<>>]
        ELSE [replies |-> early \o <<"NULL">>, ret |-> "OK",
              ran |-> TRUE, sb |-> <<r.sb>>, calls |-> r.calls]

\* What BFAdd_RedisCommand does for a command name, a key and its elements:
\* the replies it sends, the value it returns and, when it reaches
\* bf_add_common, the filter the key holds afterwards and the sb_add calls.
BFAdd(cmdname, key, elems) ==
    LET status == bf_get_sb(key, "rw")
        r      == bf_add_common(key.sb, 0, 0, elems)
        early  == IF status # "SB_OK" /\ status # "SB_EMPTY"
                  THEN <<status_strerror(status)>> ELSE <<>>
    IN  IF elems = <<>>
        THEN [replies |-> <<"ERR wrong number of arguments">>, ret |-> "ERR",
              ran |-> FALSE, sb |-> key.sb, calls |-> <<>>]
        ELSE IF status = "SB_OK" /\ key.sb[1].is_fixed # 0
        THEN [replies |-> <<"ERR cannot add: filter is fixed">>, ret |-> "ERR",
              ran |-> FALSE, sb |-> key.sb, calls |-> <<>>]
        ELSE IF status = "SB_OK" /\ cmdname = "BF.SETNX"
        THEN [replies |-> <<"ERR filter already exists">>, ret |-> "ERR",
              ran |-> FALSE, sb |-> key.sb, calls |-> <<>>]
        ELSE [replies |-> early \o <<"NULL">>, ret |-> "OK",
              ran |-> TRUE, sb |-> <<r.sb>>, calls |-> r.calls]

BFAdd_RedisCommand(cmdname, elems) ==
    LET r == BFAdd(cmdname, slot, elems)
    IN  /\ pre' = slot
        /\ replies' = r.replies
        /\ op' = Cmd(cmdname, elems, 0, r.ret)
        /\ calls' = r.calls
        /\ freed' = <<>>
        /\ IF r.ran
           THEN /\ Len(r.sb[1].cur) <= MaxGens
                /\ slot' = Filter(r.sb[1])
                /\ rdb' = <<>>
                /\ added' = (IF slot.type = "bf" THEN added ELSE {}) \cup ElemsOf(elems)
                /\ growths' = (IF slot.type = "bf" THEN growths ELSE 0) + Grown(r.calls)
                /\ inserts' = (IF slot.type = "bf" THEN inserts ELSE 0) + Inserted(r.calls)
                /\ nlive' = (IF slot.type = "bf" THEN nlive ELSE CreateAllocs)
                             + GrowthAllocs(r.calls)
           ELSE UNCHANGED <<slot, rdb, added, growths, inserts, nlive>>

---------------------------------------------------------------------------
(* Datatype functions *)

U(n) == [t |-> "unsigned", n |-> n, buf |-> {}]
D(n) == [t |-> "double", n |-> n, buf |-> {}]
S(buf, len) == [t |-> "string", n |-> len, buf |-> buf]

\* BFRdbSave writing the link's entries where its fillbits belongs.
SaveLink_nofill(lb) ==
    <<U(lb.entries), U(lb.hashes), D(lb.bpe), S(lb.bf, lb.bytes), U(lb.entries)>>

\* One link's record: entries, hashes, bpe, the bit array, fillbits.
SaveLink(lb) ==
    <<U(lb.entries), U(lb.hashes), D(lb.bpe), S(lb.bf, lb.bytes), U(lb.fillbits)>>

RECURSIVE SaveLinks(_)
SaveLinks(cur) ==
    IF cur = <<>> THEN <<>> ELSE SaveLink(Head(cur)) \o SaveLinks(Tail(cur))

BFRdbSave(sb) ==
    <<U(sb.total_entries), D(sb.error), U(sb.is_fixed)>>
    \o SaveLinks(sb.cur)
    \o <<U(0)>>

\* The link whose record starts at position pos of io.
LoadLink(io, pos, error) ==
    [entries  |-> io[pos].n,
     error    |-> error,
     bits     |-> bloom_bits(io[pos].n, io[pos + 2].n),
     bytes    |-> io[pos + 3].n,
     hashes   |-> io[pos + 1].n,
     bpe      |-> io[pos + 2].n,
     bf       |-> io[pos + 3].buf,
     fillbits |-> io[pos + 4].n]

\* The loop of BFRdbLoad from position pos on, with the chain cur built so
\* far.  status "abort": a RedisModule_Load* call ran past the end of the
\* stream and the host ended the process.
RECURSIVE LoadLinks(_, _, _, _, _)
LoadLinks(io, pos, cur, error, nalloc) ==
    IF pos > Len(io)
    THEN [status |-> "abort", cur |-> cur, nread |-> Len(io), nalloc |-> nalloc]
    ELSE IF io[pos].n = 0
    THEN [status |-> "ok", cur |-> cur, nread |-> pos, nalloc |-> nalloc]
    ELSE IF pos + 4 > Len(io)
    THEN [status |-> "abort", cur |-> cur, nread |-> Len(io), nalloc |-> nalloc + 1]
    ELSE LoadLinks(io, pos + 5, <<LoadLink(io, pos, error)>> \o cur, error, nalloc + 2)

\* BFRdbLoad testing encver after it has allocated and read the header.
BFRdbLoad_late(io, encver) ==
    IF Len(io) < 3
    THEN [status |-> "abort", obj |-> <<>>, nread |-> Len(io), nalloc |-> 1]
    ELSE IF encver # 0
    THEN [status |-> "ok", obj |-> <<>>, nread |-> 3, nalloc |-> 1]
    ELSE LET r == LoadLinks(io, 4, <<>>, io[2].n, 1)
         IN  [status |-> r.status,
              obj    |-> IF r.status = "ok"
                         THEN <<[cur           |-> r.cur,
                                 total_entries |-> io[1].n,
                                 error         |-> io[2].n,
                                 is_fixed      |-> io[3].n]>>
                         ELSE <<>>,
              nread  |-> r.nread,
              nalloc |-> r.nalloc]

\* obj is the pointer BFRdbLoad returns (<<>> is NULL); nread counts the
\* values read from io and nalloc the allocations made.
BFRdbLoad(io, encver) ==
    IF encver # 0
    THEN [status |-> "ok", obj |-> <<>>, nread |-> 0, nalloc |-> 0]
    ELSE IF Len(io) < 3
    THEN [status |-> "abort", obj |-> <<>>, nread |-> Len(io), nalloc |-> 1]
    ELSE LET r == LoadLinks(io, 4, <<>>, io[2].n, 1)
         IN  [status |-> r.status,
              obj    |-> IF r.status = "ok"
                         THEN <<[cur           |-> r.cur,
                                 total_entries |-> io[1].n,
                                 error         |-> io[2].n,
                                 is_fixed      |-> io[3].n]>>
                         ELSE <<>>,
              nread  |-> r.nread,
              nalloc |-> r.nalloc]

\* The host saves the key: rdb_save is called for a value of the module type.
RdbSave ==
    /\ slot.type = "bf"
    /\ rdb' = BFRdbSave(slot.sb[1])
    /\ pre' = slot
    /\ op' = Cmd("save", <<>>, 0, "OK")
    /\ replies' = <<>>
    /\ calls' = <<>>
    /\ freed' = <<>>
    /\ UNCHANGED <<slot, added, growths, inserts, nlive>>

\* The host restarts and loads the key from the dump io tagged encver.
Load(io, encver) ==
    LET r == BFRdbLoad(io, encver)
    IN  /\ pre' = slot
        /\ slot' = IF r.obj = <<>> THEN Empty ELSE Filter(r.obj[1])
        /\ op' = [name |-> "load", elems |-> <<>>, arg |-> encver,
                  ret |-> IF r.status = "abort" THEN "ABORT"
                          ELSE IF r.obj = <<>> THEN "NULL" ELSE "OBJ",
                  io |-> io, nread |-> r.nread, nalloc |-> r.nalloc]
        /\ replies' = <<>>
        /\ calls' = <<>>
        /\ added' = IF r.obj = <<>> THEN {} ELSE added
        /\ growths' = IF r.obj = <<>> THEN 0 ELSE growths
        /\ inserts' = IF r.obj = <<>> THEN 0 ELSE inserts
        /\ nlive' = IF r.obj = <<>> THEN 0 ELSE r.nalloc
        /\ freed' = <<>>
        /\ rdb' = IF r.obj = <<>> THEN <<>> ELSE io

RdbLoad(encver) ==
    /\ rdb # <<>>
    /\ Load(rdb, encver)

\* The record format: three header values, link records of five values each
\* with a nonzero entries, a bit array of exactly the bytes its bits need and
\* fillbits within bits, then the terminator 0.
WellFormed(io) ==
    /\ Len(io) >= 4
    /\ (Len(io) - 4) % 5 = 0
    /\ io[Len(io)].n = 0
    /\ \A k \in 0..(((Len(io) - 4) \div 5) - 1) :
           LET p == 4 + 5 * k
           IN  /\ io[p].n # 0
               /\ io[p + 3].n = bloom_bytes(bloom_bits(io[p].n, io[p + 2].n))
               /\ io[p + 4].n <= bloom_bits(io[p].n, io[p + 2].n)

\* The dumps a damaged copy of io may be: cut short after any value, or with
\* the first link's bit array one byte longer than its bits need, or with
\* the first link's fillbits above its bits.
Truncated(io) == {SubSeq(io, 1, k) : k \in 0..(Len(io) - 1)}

Inconsistent(io) ==
    IF Len(io) < 9
    THEN {}
    ELSE {[io EXCEPT ![7].n = io[7].n + 1],
          [io EXCEPT ![8].n = bloom_bits(io[4].n, io[6].n) + 1]}

\* The host restarts on a damaged copy of a dump that was written intact.
RdbLoadDamaged ==
    /\ rdb # <<>>
    /\ WellFormed(rdb)
    /\ \E io \in Truncated(rdb) \cup Inconsistent(rdb) : Load(io, 0)

\* The host frees the key's value: for a filter it calls BFFree, which is
\* sb_free.
BFFree(key) ==
    IF key.type = "bf" THEN sb_free(HeapOf(key.sb[1]), SbAddr) ELSE <<>>

\* Another command of the host stores a value of another type, or deletes
\* the key.
HostSet ==
    /\ slot' = OtherValue
    /\ rdb' = <<>>
    /\ pre' = slot
    /\ op' = Cmd("SET", <<>>, 0, "OK")
    /\ replies' = <<"OK">>
    /\ calls' = <<>>
    /\ added' = {}
    /\ growths' = 0
    /\ inserts' = 0
    /\ freed' = BFFree(slot)
    /\ nlive' = nlive - Cardinality(ElemsOf(BFFree(slot)))

HostDel ==
    /\ slot.type # "empty"
    /\ slot' = Empty
    /\ rdb' = <<>>
    /\ pre' = slot
    /\ op' = Cmd("DEL", <<>>, 0, "OK")
    /\ replies' = <<"1">>
    /\ calls' = <<>>
    /\ added' = {}
    /\ growths' = 0
    /\ inserts' = 0
    /\ freed' = BFFree(slot)
    /\ nlive' = nlive - Cardinality(ElemsOf(BFFree(slot)))

---------------------------------------------------------------------------
(* Specifications *)

Init ==
    /\ slot = Empty
    /\ rdb = <<>>
    /\ pre = Empty
    /\ op = NoOp
    /\ replies = <<>>
    /\ calls = <<>>
    /\ added = {}
    /\ growths = 0
    /\ inserts = 0
    /\ nlive = 0
    /\ freed = <<>>

Next ==
    \/ \E rate \in RateArgs, elems \in CreateBatches : BFCreate_RedisCommand(rate, elems)
    \/ \E cmdname \in {"BF.SET", "BF.SETNX"}, elems \in AddBatches :
           BFAdd_RedisCommand(cmdname, elems)
    \/ \E e \in Elems : BFCheck_RedisCommand(e)
    \/ RdbSave
    \/ \E encver \in EncVers : RdbLoad(encver)
    \/ HostSet
    \/ HostDel

Spec == Init /\ [][Next]_vars

\* The same program, with dumps that may come back damaged.
NextDamaged == Next \/ RdbLoadDamaged

SpecDamaged == Init /\ [][NextDamaged]_vars

---------------------------------------------------------------------------
(* Properties *)

IsAdd == op.name \in {"BF.SET", "BF.SETNX"}

\* A load of the dump of the filter the key held when the load started.
IsRoundTrip ==
    /\ op.name = "load"
    /\ op.arg = 0
    /\ pre.type = "bf"
    /\ op.io = BFRdbSave(pre.sb[1])

\* Every link of old has its own link in new, of the same size and with at
\* least the same bits set.
KeepsBits(old, new) ==
    \E f \in [1..Len(old.cur) -> 1..Len(new.cur)] :
        /\ \A i, j \in 1..Len(old.cur) : f[i] = f[j] => i = j
        /\ \A i \in 1..Len(old.cur) :
               /\ old.cur[i].entries = new.cur[f[i]].entries
               /\ old.cur[i].bits = new.cur[f[i]].bits
               /\ old.cur[i].bf \subseteq new.cur[f[i]].bf

\* The links of a chain as a bag.
LinkBag(cur) ==
    [lb \in {cur[i] : i \in 1..Len(cur)} |->
        Cardinality({i \in 1..Len(cur) : cur[i] = lb})]

\* C1: no false negatives.  Every sb_add call leaves its element testing
\* true; every element sb_add was ever called with on the key's filter still
\* tests true, after any further commands, growths, saves and loads; and no
\* sb_add call and no operation on the filter clears a bit of any link.
C1_NoFalseNegatives ==
    /\ \A i \in 1..Len(calls) :
           /\ sb_check(calls[i].post, calls[i].elem)
           /\ KeepsBits(calls[i].pre, calls[i].post)
    /\ slot.type = "bf" => \A e \in added : sb_check(slot.sb[1], e)
    /\ (pre.type = "bf" /\ slot.type = "bf") => KeepsBits(pre.sb[1], slot.sb[1])

\* A filter that has grown and holds elements has just been loaded back.
C1_Witness ==
    /\ IsRoundTrip
    /\ op.ret = "OBJ"
    /\ growths >= 1
    /\ added # {}

\* C2: after loading the dump of a filter of two or more links, the head is
\* the link that was the head when the dump was written and the last link is
\* the one that was last.
C2_DecodeKeepsOrder ==
    (IsRoundTrip /\ op.ret = "OBJ" /\ Len(pre.sb[1].cur) >= 2) =>
        /\ Head(slot.sb[1].cur) = Head(pre.sb[1].cur)
        /\ slot.sb[1].cur[Len(slot.sb[1].cur)] = pre.sb[1].cur[Len(pre.sb[1].cur)]

\* C3: loading the dump of a filter returns a filter with the same
\* total_entries, error and is_fixed and as many links, each link of the
\* original matched by a loaded link with the same entries, hashes, bpe,
\* fillbits and bit array; and a dump ends with the one terminator 0, which
\* follows the last link's record, no link's entries being 0.
C3_RoundTrip ==
    /\ IsRoundTrip =>
           /\ op.ret = "OBJ"
           /\ slot.type = "bf"
           /\ slot.sb[1].total_entries = pre.sb[1].total_entries
           /\ slot.sb[1].error = pre.sb[1].error
           /\ slot.sb[1].is_fixed = pre.sb[1].is_fixed
           /\ Len(slot.sb[1].cur) = Len(pre.sb[1].cur)
           /\ LinkBag(slot.sb[1].cur) = LinkBag(pre.sb[1].cur)
    /\ op.name = "save" =>
           /\ Len(rdb) = 4 + 5 * Len(slot.sb[1].cur)
           /\ rdb[Len(rdb)] = U(0)
           /\ \A k \in 0..(Len(slot.sb[1].cur) - 1) : rdb[4 + 5 * k].n # 0

\* A filter of three links that holds elements has just been loaded back.
C3_Witness ==
    /\ IsRoundTrip
    /\ op.ret = "OBJ"
    /\ Len(pre.sb[1].cur) >= 3
    /\ pre.sb[1].total_entries > 0

\* C4: an sb_add call for an element that tests false prepends exactly one
\* link when the head has fillbits * 2 > bits and none otherwise; the new
\* link has twice the old head's entries and the filter's error rate, the
\* old chain follows it unchanged, and it holds the element's bits and no
\* others; a call for an element that tests true prepends none; so the
\* chain's length is 1 + the number of links prepended.
C4_GrowthTrigger ==
    /\ \A i \in 1..Len(calls) :
           LET c == calls[i]
               h == Head(c.pre.cur)
           IN  IF ~sb_check(c.pre, c.elem) /\ h.fillbits * 2 > h.bits
               THEN /\ Len(c.post.cur) = Len(c.pre.cur) + 1
                    /\ Tail(c.post.cur) = c.pre.cur
                    /\ Head(c.post.cur).entries = 2 * h.entries
                    /\ Head(c.post.cur).error = c.pre.error
                    /\ Head(c.post.cur).bpe = h.bpe
                    /\ Head(c.post.cur).bf = bloom_positions(Head(c.post.cur), c.elem)
                    /\ Head(c.post.cur).fillbits = Cardinality(Head(c.post.cur).bf)
               ELSE /\ Len(c.post.cur) = Len(c.pre.cur)
                    /\ Tail(c.post.cur) = Tail(c.pre.cur)
    /\ slot.type = "bf" => Len(slot.sb[1].cur) = 1 + growths

\* A command whose sb_add calls prepended a second and a third link.
C4_Witness ==
    /\ slot.type = "bf"
    /\ Len(slot.sb[1].cur) = 3
    /\ \E i \in 1..Len(calls) :
           /\ Len(calls[i].pre.cur) = 2
           /\ Len(calls[i].post.cur) = 3

\* C5: sb_add returns 0 for an element that already tested true, and
\* nonzero, with total_entries one higher, for one that did not.
C5_ResultTellsInserted ==
    \A i \in 1..Len(calls) :
        LET c == calls[i]
        IN  IF sb_check(c.pre, c.elem)
            THEN c.rv = 0
            ELSE /\ c.rv # 0
                 /\ c.post.total_entries = c.pre.total_entries + 1

\* C6: an sb_add call for an element that already tests true leaves the whole
\* filter as it was, also when the head has fillbits * 2 > bits; and a
\* command that adds the same element twice to a new filter leaves
\* total_entries at 1.
C6_DuplicateAddNoOp ==
    /\ \A i \in 1..Len(calls) :
           sb_check(calls[i].pre, calls[i].elem) => calls[i].post = calls[i].pre
    /\ \A i \in 1..Len(calls) :
           (/\ i >= 2
            /\ calls[i].elem = calls[i - 1].elem
            /\ calls[i - 1].pre.total_entries = 0) =>
               calls[i].post.total_entries = 1

\* An element that tests true is added while the head is over half full.
C6_Witness ==
    \E i \in 1..Len(calls) :
        /\ sb_check(calls[i].pre, calls[i].elem)
        /\ Head(calls[i].pre.cur).fillbits * 2 > Head(calls[i].pre.cur).bits

\* C7: BF.SET or BF.SETNX on a key that holds a value of another type
\* replies with the mismatched-type error alone, calls neither sb_create nor
\* sb_add, and leaves the key's value as it was.
C7_WrongTypeRefused ==
    (IsAdd /\ op.elems # <<>> /\ pre.type = "string") =>
        /\ replies = <<"ERR mismatched type">>
        /\ calls = <<>>
        /\ slot = pre

\* C8: BF.SET or BF.SETNX with one or more elements on a filter whose
\* is_fixed is set replies with the fixed error and leaves the filter as it
\* was, and with no elements it leaves it as it was too; loading a filter's
\* dump keeps is_fixed.
C8_FixedRefused ==
    /\ (IsAdd /\ pre.type = "bf" /\ pre.sb[1].is_fixed # 0) =>
           /\ slot = pre
           /\ calls = <<>>
           /\ op.elems # <<>> => replies = <<"ERR cannot add: filter is fixed">>
    /\ (IsRoundTrip /\ op.ret = "OBJ") =>
           slot.sb[1].is_fixed = pre.sb[1].is_fixed

\* An add is refused on a fixed filter that was loaded from a dump: its
\* chain is in the order a load leaves it in.
C8_Witness ==
    /\ IsAdd
    /\ op.elems # <<>>
    /\ pre.type = "bf"
    /\ pre.sb[1].is_fixed # 0
    /\ Len(pre.sb[1].cur) >= 2
    /\ pre.sb[1].cur[1].entries < pre.sb[1].cur[2].entries

\* C9: loading a dump that is not well formed returns no object.
C9_FailsClosed ==
    (op.name = "load" /\ op.arg = 0 /\ ~WellFormed(op.io)) =>
        /\ op.ret # "OBJ"
        /\ slot.type # "bf"

\* C10: loading a dump tagged with an encoding version other than 0 returns
\* NULL, reads no value from the stream and allocates nothing.
C10_BadVersion ==
    (op.name = "load" /\ op.arg # 0) =>
        /\ op.ret = "NULL"
        /\ op.nread = 0
        /\ op.nalloc = 0
        /\ slot = Empty

\* A filter's dump is loaded under encoding version 1.
C10_Witness ==
    /\ op.name = "load"
    /\ op.arg = 1
    /\ pre.type = "bf"
    /\ op.io # <<>>

\* C11: BF.CREATE succeeds only on an empty key.  On a key that holds a
\* filter it replies with the item-exists error, on a key of another type
\* with the mismatched-type error (an unparsable error rate is refused
\* before the key is looked at); either way the key's value stays as it was
\* and sb_add is not called.
C11_CreateRefused ==
    /\ (op.name = "BF.CREATE" /\ op.ret = "OK") => pre.type = "empty"
    /\ (op.name = "BF.CREATE" /\ pre.type # "empty") =>
           /\ op.ret = "ERR"
           /\ slot = pre
           /\ calls = <<>>
           /\ Len(replies) = 1
           /\ op.arg # BadRate =>
                  replies = <<IF pre.type = "bf" THEN "ERR item exists"
                                                 ELSE "ERR mismatched type">>

\* BF.CREATE with a valid error rate and elements on a key that holds a
\* filter.
C11_Witness ==
    /\ op.name = "BF.CREATE"
    /\ op.arg # BadRate
    /\ op.elems # <<>>
    /\ pre.type = "bf"

\* C12: in every state, each link of the key's filter that has a next link
\* has exactly twice that link's entries.
C12_CapacityDoubles ==
    slot.type = "bf" =>
        \A i \in 1..(Len(slot.sb[1].cur) - 1) :
            slot.sb[1].cur[i].entries = 2 * slot.sb[1].cur[i + 1].entries

\* C13: a filter whose is_fixed is set has exactly one link, and no command
\* that finds it fixed calls sb_add on it.
C13_FixedNeverGrows ==
    /\ (slot.type = "bf" /\ slot.sb[1].is_fixed # 0) => Len(slot.sb[1].cur) = 1
    /\ (pre.type = "bf" /\ pre.sb[1].is_fixed # 0) => calls = <<>>

\* Every link of old has its own link in new with the same entries, hashes,
\* bpe and bits, at least the same bits set and at least the same fillbits.
KeepsLinks(old, new) ==
    \E f \in [1..Len(old.cur) -> 1..Len(new.cur)] :
        /\ \A i, j \in 1..Len(old.cur) : f[i] = f[j] => i = j
        /\ \A i \in 1..Len(old.cur) :
               /\ old.cur[i].entries = new.cur[f[i]].entries
               /\ old.cur[i].hashes = new.cur[f[i]].hashes
               /\ old.cur[i].bpe = new.cur[f[i]].bpe
               /\ old.cur[i].bits = new.cur[f[i]].bits
               /\ old.cur[i].bf \subseteq new.cur[f[i]].bf
               /\ old.cur[i].fillbits <= new.cur[f[i]].fillbits

\* C14: in every state each link's fillbits is the number of bits set in its
\* bit array and so at most its bits; and across every sb_add call and every
\* operation on a filter each link keeps its entries, hashes, bpe and bits
\* and its fillbits does not go down.
C14_FillInvariant ==
    /\ slot.type = "bf" =>
           \A i \in 1..Len(slot.sb[1].cur) :
               /\ slot.sb[1].cur[i].fillbits = Cardinality(slot.sb[1].cur[i].bf)
               /\ slot.sb[1].cur[i].fillbits <= slot.sb[1].cur[i].bits
    /\ \A i \in 1..Len(calls) :
           /\ KeepsLinks(calls[i].pre, calls[i].post)
           /\ \A k \in 1..Len(calls[i].post.cur) :
                  calls[i].post.cur[k].fillbits = Cardinality(calls[i].post.cur[k].bf)
    /\ (pre.type = "bf" /\ slot.type = "bf") => KeepsLinks(pre.sb[1], slot.sb[1])

\* An sb_add call sets fewer new bits than the element has, on a filter of
\* seven hashes: some of its bits were set already.
C14_Witness ==
    \E i \in 1..Len(calls) :
        /\ ~sb_check(calls[i].pre, calls[i].elem)
        /\ calls[i].rv < Head(calls[i].post.cur).hashes

\* C15: every link made by a create or by a growth has at least MinEntries
\* entries: the first link of a filter created for fewer elements than that
\* has exactly MinEntries; so no link has entries 0 and no link record of a
\* dump starts with 0.
C15_CapacityFloor ==
    /\ slot.type = "bf" =>
           \A i \in 1..Len(slot.sb[1].cur) : slot.sb[1].cur[i].entries >= MinEntries
    /\ \A i \in 1..Len(calls) :
           \A k \in 1..Len(calls[i].post.cur) :
               calls[i].post.cur[k].entries >= MinEntries
    /\ (op.name \in {"BF.CREATE", "BF.SET", "BF.SETNX"} /\ op.ret = "OK"
            /\ pre.type # "bf" /\ Len(op.elems) < MinEntries) =>
           \E k \in 1..Len(slot.sb[1].cur) : slot.sb[1].cur[k].entries = MinEntries
    /\ op.name = "save" =>
           \A k \in 0..(Len(slot.sb[1].cur) - 1) : rdb[4 + 5 * k].n >= MinEntries

\* The dump of a filter created for no elements at all has been written.
C15_Witness ==
    /\ op.name = "save"
    /\ slot.sb[1].total_entries = 0
    /\ Len(rdb) = 9

\* C16: every command sends exactly one reply, and a command whose reply is
\* an error leaves the key's value as it was and calls sb_add for nothing.
C16_OneOutcome ==
    op.name \in {"BF.CREATE", "BF.SET", "BF.SETNX", "BF.TEST"} =>
        /\ Len(replies) = 1
        /\ (\E i \in 1..Len(replies) : replies[i] \notin {"NULL", "0", "1"}) =>
               /\ slot = pre
               /\ calls = <<>>

\* Some link of the chain cur, whatever its place, tests true for e.
AnyLinkHas(cur, e) == \E lb \in {cur[i] : i \in 1..Len(cur)} : bloom_check(lb, e)

\* C17: total_entries is the number of sb_add calls on the filter that found
\* the test false.  It is 0 in a new filter; a call that finds the test false
\* raises it by exactly 1 and sets at least one bit of the head that was
\* clear; a call that finds the test true, and every other operation, leaves
\* it as it was; so it never goes down.
C17_TotalEntries ==
    /\ slot.type = "bf" => slot.sb[1].total_entries = inserts
    /\ \A i \in 1..Len(calls) :
           LET c == calls[i]
           IN  IF AnyLinkHas(c.pre.cur, c.elem)
               THEN c.post.total_entries = c.pre.total_entries
               ELSE /\ c.post.total_entries = c.pre.total_entries + 1
                    /\ c.rv >= 1
                    /\ bloom_positions(Head(c.post.cur), c.elem) \ 
                           (IF Len(c.post.cur) = Len(c.pre.cur)
                            THEN Head(c.pre.cur).bf ELSE {}) # {}
                    /\ bloom_positions(Head(c.post.cur), c.elem)
                           \subseteq Head(c.post.cur).bf
    /\ (pre.type # "bf" /\ calls # <<>>) => calls[1].pre.total_entries = 0
    /\ (pre.type # "bf" /\ slot.type = "bf" /\ calls = <<>>) =>
           slot.sb[1].total_entries = 0
    /\ (pre.type = "bf" /\ slot.type = "bf") =>
           /\ slot.sb[1].total_entries >= pre.sb[1].total_entries
           /\ calls = <<>> => slot.sb[1].total_entries = pre.sb[1].total_entries

\* A filter has been given more distinct elements than it counts: one of
\* them tested true before it was added.
C17_Witness ==
    /\ slot.type = "bf"
    /\ inserts >= 2
    /\ inserts < Cardinality(added)

\* C18: BF.TEST on a filter replies 1 exactly when some link of the chain, in
\* whatever place, tests true for the element, and 0 otherwise; BF.TEST
\* changes nothing of the key, and on a missing key it replies with the
\* not-found error and the key stays missing.
C18_TestIsUnion ==
    op.name = "BF.TEST" =>
        /\ slot = pre
        /\ Len(replies) = 1
        /\ pre.type = "bf" =>
               replies[1] = (IF AnyLinkHas(pre.sb[1].cur, op.elems[1]) THEN "1" ELSE "0")
        /\ pre.type = "empty" => replies[1] = "ERR not found" /\ slot = Empty
        /\ pre.type = "string" => replies[1] = "ERR mismatched type"

\* BF.TEST replies 1 for an element that only a link behind the head holds.
C18_Witness ==
    /\ op.name = "BF.TEST"
    /\ pre.type = "bf"
    /\ replies = <<"1">>
    /\ Len(pre.sb[1].cur) >= 2
    /\ ~bloom_check(Head(pre.sb[1].cur), op.elems[1])

\* The place of address a in the sequence of frees.
FreedAt(a) == CHOOSE k \in 1..Len(freed) : freed[k] = a

\* C19: when the host frees a filter, sb_free frees every link and every
\* link's bit array exactly once, the bit array before its link, and the
\* filter itself last; afterwards none of the allocations made for the
\* filter by create, growth or load is live.
C19_FreeAll ==
    (op.name \in {"DEL", "SET"} /\ pre.type = "bf") =>
        LET n == Len(pre.sb[1].cur)
        IN  /\ Len(freed) = 2 * n + 1
            /\ \A j, k \in 1..Len(freed) : freed[j] = freed[k] => j = k
            /\ {freed[k] : k \in 1..Len(freed)} = 1..(2 * n + 1)
            /\ freed[Len(freed)] = SbAddr
            /\ \A i \in 1..n : FreedAt(BfAddr(i)) < FreedAt(LbAddr(i))
            /\ nlive = 0

\* A filter of three links that was loaded from a dump is deleted.
C19_Witness ==
    /\ op.name = "DEL"
    /\ pre.type = "bf"
    /\ Len(pre.sb[1].cur) = 3
    /\ pre.sb[1].cur[1].entries < pre.sb[1].cur[2].entries

\* C20: BF.SETNX with elements on an empty key leaves a filter that is not
\* fixed, has the default error rate and a first link sized for the number of
\* elements (at least MinEntries), and holds the elements; BF.SETNX on a key
\* that holds a filter replies with an error and leaves the filter as it
\* was; BF.SET with elements on a filter that is not fixed adds them to that
\* same filter, whose links, error rate and is_fixed stay.
C20_SetnxOnlyCreates ==
    /\ (op.name = "BF.SETNX" /\ op.elems # <<>> /\ pre.type = "empty") =>
           /\ replies = <<"NULL">>
           /\ slot.type = "bf"
           /\ slot.sb[1].is_fixed = 0
           /\ slot.sb[1].error = BFDefaultErrorRate
           /\ slot.sb[1].cur[Len(slot.sb[1].cur)].entries =
                  (IF Len(op.elems) < MinEntries THEN MinEntries ELSE Len(op.elems))
           /\ Len(calls) = Len(op.elems)
           /\ \A k \in 1..Len(op.elems) : AnyLinkHas(slot.sb[1].cur, op.elems[k])
    /\ (op.name = "BF.SETNX" /\ pre.type = "bf") =>
           /\ op.ret = "ERR"
           /\ Len(replies) = 1
           /\ op.elems # <<>> =>
                  replies[1] \in {"ERR filter already exists",
                                  "ERR cannot add: filter is fixed"}
           /\ slot = pre
           /\ calls = <<>>
    /\ (op.name = "BF.SET" /\ op.elems # <<>> /\ pre.type = "bf"
            /\ pre.sb[1].is_fixed = 0) =>
           /\ replies = <<"NULL">>
           /\ slot.type = "bf"
           /\ Len(calls) = Len(op.elems)
           /\ calls[1].pre = pre.sb[1]
           /\ calls[Len(calls)].post = slot.sb[1]
           /\ KeepsLinks(pre.sb[1], slot.sb[1])
           /\ slot.sb[1].error = pre.sb[1].error
           /\ slot.sb[1].is_fixed = 0
           /\ \A k \in 1..Len(op.elems) : AnyLinkHas(slot.sb[1].cur, op.elems[k])

\* BF.SETNX with elements is refused on a filter that is not fixed.
C20_Witness ==
    /\ op.name = "BF.SETNX"
    /\ op.elems # <<>>
    /\ pre.type = "bf"
    /\ pre.sb[1].is_fixed = 0

=============================================================================
